---- MODULE Spec2Model ----
(***************************************************************************)
(* Verification model of the AI governance assessment tool.                *)
(*                                                                         *)
(* The checklist ("gap analysis") branch of POST /api/assess               *)
(* (handleChecklistAssessment) is modelled as a pipeline of steps:         *)
(*   calculateRiskScoresWithGaps -> generateGapRecommendations ->          *)
(*   overall score and control summary -> assessment result.               *)
(* utils/gapAnalysis and components/checklistData are imported by the      *)
(* route but their text is not part of the sources at hand; they are       *)
(* modelled from section 4.1 of the specification.                         *)
(*                                                                         *)
(* JavaScript numbers that may be fractional or NaN are modelled as        *)
(* records [num, den] (den = 0 is NaN, den > 0 the rational num/den).      *)
(***************************************************************************)
EXTENDS Integers, Sequences, FiniteSets, TLC

VARIABLES
  checklistQuestions,   \* the question catalog in use: sequence of [id, category, weight]
  baseRiskScores,       \* category -> base risk score (partial)
  checklistData,        \* question id -> answer string (partial)
  pc,                   \* position of the handler
  adjustedRiskScores,   \* category -> adjusted risk score
  gapAnalysis,          \* [implementationStatus, totalRiskReduction, gapPercentage]
  gapRecommendations,   \* sequence of [questionId, category, weight]
  overallScore,         \* unrounded overall score, a JS number
  implementedControls,  \* ids of the controls listed as implemented
  missingControls,      \* ids of the controls listed as missing
  assessmentResult,     \* the response's assessment object
  \* the request body and the environment of POST /api/assess
  userInputs,           \* [aiModel, useCase, dataSensitivity, industry, accuracyReq]
  hasRiskAssessment,    \* truthiness of body.hasRiskAssessment
  checklistPresent,     \* truthiness of body.checklistData
  apiKeyConfigured,     \* process.env.OPENAI_API_KEY is set
  \* locals of the route
  applicableRisks,      \* sequence of risk keys
  frameworks,           \* keys of the framework data loaded
  branch,               \* "none", "checklist" or "standard"
  llmCalls,             \* calls made to openai.chat.completions.create
  completion,           \* the text the standard assessment got back
  aiGeneratedAnalysis,  \* "", "llm" or "fallback"
  finosRiskMitigations, \* sequence of [riskId, mitigationId, priority]
  contributingFactors,  \* sequence of [riskId, factor, relevance]
  relevantExamples,     \* sequence of [riskId, exampleTitle]
  response,             \* [status, success, error, assessmentType]
  \* the page (app/page.tsx) and its two forms
  currentStep,          \* 'form', 'checklist' or 'results'
  homeFormData,         \* formData of Home: << >> for null, else << form >>
  homeAssessmentResult, \* assessmentResult of Home: "null" or the kind of result
  isLoading,            \* isLoading of Home, handed to both forms
  formData,             \* formData of AssessmentForm
  responses,            \* responses of ChecklistAssessment: question id -> answer
  inFlight,             \* the requests sent to /api/assess and not yet answered,
                        \* each with the branch POST took once it has run
  alertShown,           \* the alert the last step of the page showed, "" for none
  \* requests handled at the same time
  requests,             \* request -> [body, outcome, pc, response]
  locals,               \* invocation -> the locals of POST and its handler
  \* what ResultsDisplay shows for its result
  scoreLabel,           \* getScoreLabel(result.overallScore), "" before rendering
  scoreColor            \* getScoreColor(result.overallScore), "" before rendering

scorerVars == << checklistQuestions, baseRiskScores, checklistData,
                 adjustedRiskScores, gapAnalysis, gapRecommendations,
                 overallScore, implementedControls, missingControls,
                 assessmentResult >>

requestVars == << userInputs, hasRiskAssessment, checklistPresent,
                  apiKeyConfigured >>

routeVars == << applicableRisks, frameworks, branch, llmCalls, completion,
                aiGeneratedAnalysis, finosRiskMitigations, contributingFactors,
                relevantExamples, response >>

clientVars == << currentStep, homeFormData, homeAssessmentResult, isLoading,
                 formData, responses, inFlight, alertShown >>

concurrentVars == << requests, locals >>

displayVars == << scoreLabel, scoreColor >>

\* what a single run of the route leaves alone
envVars == << requestVars, clientVars, concurrentVars, displayVars >>

\* everything but the locals of the scorer steps
nonScorerVars == << envVars, routeVars >>

vars == << pc, scorerVars, envVars, routeVars >>

----------------------------------------------------------------------------
(* Bounds and input sets *)

\* longest question catalog drawn as an input
MaxQuestions == 2

RiskCategory == {"hallucination", "promptInjection", "dataLeakage"}

\* answers a request can carry for a question: the three ChecklistAnswer
\* values and a malformed one; a question may also have no answer at all
AnswerValues == {"yes", "no", "na", "maybe"}

\* base scores drawn as inputs, within 0..100: below the floor, at the
\* floor, a score the handler assigns, and the top of the range
BaseValues == {5, 10, 85, 100}

\* the questions catalogs are cut from; weights are non-negative
MasterCatalog ==
  << [id |-> 1, category |-> "hallucination",   weight |-> 20],
     [id |-> 2, category |-> "hallucination",   weight |-> 15],
     [id |-> 7, category |-> "dataLeakage",     weight |-> 30],
     [id |-> 3, category |-> "promptInjection", weight |-> 30],
     [id |-> 4, category |-> "hallucination",   weight |-> 60],
     [id |-> 5, category |-> "hallucination",   weight |-> 40],
     [id |-> 6, category |-> "promptInjection", weight |-> 0] >>

\* catalogs: the non-empty runs of at most MaxQuestions master questions
CatalogSet ==
  { SubSeq(MasterCatalog, i, i + n - 1) :
      <<i, n>> \in { p \in (1..Len(MasterCatalog)) \X (1..MaxQuestions) :
                       p[1] + p[2] - 1 <= Len(MasterCatalog) } }

CatalogIds(catalog) == { catalog[i].id : i \in 1..Len(catalog) }

\* partial maps from a set of keys to a set of values
PartialMaps(keys, values) == UNION { [D -> values] : D \in SUBSET keys }

----------------------------------------------------------------------------
(* JS numbers *)

Max(a, b) == IF a >= b THEN a ELSE b
Min(a, b) == IF a <= b THEN a ELSE b

NaN == [num |-> 0, den |-> 0]
Num(n) == [num |-> n, den |-> 1]
IsNaN(x) == x.den = 0

\* a / b of two integers; 0 / 0 is NaN
Div(a, b) == [num |-> a, den |-> b]

\* Math.min(n, x), Math.max(n, x) for an integer n: NaN if x is NaN
MathMin(n, x) == IF IsNaN(x) THEN NaN
                 ELSE IF n * x.den <= x.num THEN Num(n) ELSE x
MathMax(n, x) == IF IsNaN(x) THEN NaN
                 ELSE IF n * x.den >= x.num THEN Num(n) ELSE x

\* Math.round(x): the integer nearest to x, halves rounded up; NaN stays NaN
MathRound(x) == IF IsNaN(x) THEN NaN
                ELSE Num((2 * x.num + x.den) \div (2 * x.den))

----------------------------------------------------------------------------
(* utils/gapAnalysis: calculateRiskScoresWithGaps *)

\* floor of an adjusted score
Floor == 10

\* variant: every answer but 'no' counts as implemented
ImplementedUnlessNo(answers, id) ==
  id \in DOMAIN answers /\ answers[id] # "no"

\* a question counts as implemented only when its answer is exactly 'yes'
Implemented(answers, id) == id \in DOMAIN answers /\ answers[id] = "yes"

\* step 1: the catalog questions of one category, in catalog order
QuestionsOfCategory(catalog, c) ==
  SelectSeq(catalog, LAMBDA q : q.category = c)

\* step 2: sum of the weights of the questions answered 'yes'
RECURSIVE SumImplementedWeights(_, _)
SumImplementedWeights(questions, answers) ==
  IF questions = << >> THEN 0
  ELSE (IF Implemented(answers, Head(questions).id)
          THEN Head(questions).weight ELSE 0)
       + SumImplementedWeights(Tail(questions), answers)

\* variant: the questions are not grouped by category
RawReductionWholeCatalog(catalog, answers, c) ==
  SumImplementedWeights(catalog, answers)

RawReduction(catalog, answers, c) ==
  SumImplementedWeights(QuestionsOfCategory(catalog, c), answers)

\* variant: the reduction is added to the base score
AdjustedScoreAddsReduction(base, raw) == Max(Floor, base + raw)

\* variant: the floor is not applied
AdjustedScoreUnfloored(base, raw) == base - raw

\* step 3: adjustedScore = max(floor, baseScore - rawReduction)
AdjustedScore(base, raw) == Max(Floor, base - raw)

\* step 4: the reduction actually applied to a category
AppliedReduction(base, raw) ==
  IF raw > base - Floor THEN base - Floor ELSE raw

RECURSIVE SumOver(_, _)
SumOver(f, S) ==
  IF S = {} THEN 0
  ELSE LET x == CHOOSE y \in S : TRUE
       IN  f[x] + SumOver(f, S \ {x})

\* variant: the raw sums of weights are credited
TotalRawReduction(base, catalog, answers) ==
  SumOver([c \in DOMAIN base |-> RawReduction(catalog, answers, c)],
          DOMAIN base)

TotalRiskReduction(base, catalog, answers) ==
  LET applied == [c \in DOMAIN base |->
                    AppliedReduction(base[c], RawReduction(catalog, answers, c))]
  IN  SumOver(applied, DOMAIN base)

\* step 6: implementation status per question id
ImplementationStatus(catalog, answers) ==
  [id \in CatalogIds(catalog) |->
     LET q == CHOOSE r \in { catalog[i] : i \in 1..Len(catalog) } : r.id = id
     IN  [implemented |-> Implemented(answers, id),
          category |-> q.category, weight |-> q.weight]]

\* step 5: missing controls / total controls, expressed 0-100
GapPercentage(status) ==
  Div(100 * Cardinality({ id \in DOMAIN status : ~status[id].implemented }),
      Cardinality(DOMAIN status))

calculateRiskScoresWithGaps(base, answers, catalog) ==
  LET status == ImplementationStatus(catalog, answers)
  IN  [adjustedRiskScores |->
         [c \in DOMAIN base |->
            AdjustedScore(base[c], RawReduction(catalog, answers, c))],
       gapAnalysis |->
         [implementationStatus |-> status,
          totalRiskReduction |-> TotalRiskReduction(base, catalog, answers),
          gapPercentage |-> GapPercentage(status)]]

----------------------------------------------------------------------------
(* utils/gapAnalysis: generateGapRecommendations *)

\* the keys of an object with integer keys, in the order Object.entries
\* visits them: ascending
RECURSIVE AscendingIds(_)
AscendingIds(S) ==
  IF S = {} THEN << >>
  ELSE LET m == CHOOSE x \in S : \A y \in S : x <= y
       IN  << m >> \o AscendingIds(S \ {m})

\* variant: a tie puts the later record first
BeforeOrTied(a, b) == a.weight >= b.weight

\* a comes before b: heavier first, the lower question id first on a tie
Before(a, b) ==
  \/ a.weight > b.weight
  \/ a.weight = b.weight /\ a.questionId < b.questionId

\* stable insertion of r into a sorted sequence
RECURSIVE InsertSorted(_, _)
InsertSorted(r, sorted) ==
  IF sorted = << >> THEN << r >>
  ELSE IF Before(r, Head(sorted)) THEN << r >> \o sorted
  ELSE << Head(sorted) >> \o InsertSorted(r, Tail(sorted))

RECURSIVE SortRecommendations(_)
SortRecommendations(recs) ==
  IF recs = << >> THEN << >>
  ELSE InsertSorted(recs[Len(recs)],
                    SortRecommendations(SubSeq(recs, 1, Len(recs) - 1)))

\* one record per question that is not implemented
RECURSIVE MissingRecords(_, _)
MissingRecords(status, ids) ==
  IF ids = << >> THEN << >>
  ELSE LET id == Head(ids)
           rest == MissingRecords(status, Tail(ids))
       IN  IF status[id].implemented THEN rest
           ELSE << [questionId |-> id, category |-> status[id].category,
                    weight |-> status[id].weight] >> \o rest

generateGapRecommendations(gap) ==
  SortRecommendations(
    MissingRecords(gap.implementationStatus,
                   AscendingIds(DOMAIN gap.implementationStatus)))

----------------------------------------------------------------------------
(* app/api/assess/route.ts: handleChecklistAssessment *)

\* lower and upper limit of the overall compliance score
MinOverallScore == 10
MaxOverallScore == 100

\* variant: the reduction is credited in full instead of by half
OverallScoreUnhalved(adjusted, totalRiskReduction) ==
  LET n == Cardinality(DOMAIN adjusted)
      s == SumOver(adjusted, DOMAIN adjusted)
  IN  MathMax(MinOverallScore,
        MathMin(MaxOverallScore,
          Div(100 * n - s + n * totalRiskReduction, n)))

\* avgRiskScore = sum(values) / values.length
\* overallScore = Math.max(10, Math.min(100, 100 - avgRiskScore + totalRiskReduction / 2))
\* With n values of sum s and reduction t the inner term is
\* (200 n - 2 s + n t) / (2 n); no values gives 0 / 0.  In floating point
\* s / n is inexact only for n = 3 and s not a multiple of 3, and then the
\* term is at least 1/6 away from a half-integer, so rounding is unaffected.
OverallScore(adjusted, totalRiskReduction) ==
  LET n == Cardinality(DOMAIN adjusted)
      s == SumOver(adjusted, DOMAIN adjusted)
  IN  MathMax(MinOverallScore,
        MathMin(MaxOverallScore,
          Div(200 * n - 2 * s + n * totalRiskReduction, 2 * n)))

\* variant: the two branches are swapped
ControlsWhereSwapped(status, catalog, flag) ==
  SelectSeq(AscendingIds(DOMAIN status),
            LAMBDA id : /\ id \in CatalogIds(catalog)
                        /\ status[id].implemented # flag)

\* Object.entries(implementationStatus).forEach: the ids whose question is in
\* the catalog and whose implemented flag is `flag`, in visiting order
ControlsWhere(status, catalog, flag) ==
  SelectSeq(AscendingIds(DOMAIN status),
            LAMBDA id : /\ id \in CatalogIds(catalog)
                        /\ status[id].implemented = flag)

\* variant: every control with a status is counted as implemented
AssessmentResultCountsAll(overall, adjusted, gap) ==
  LET totalCount == Cardinality(DOMAIN gap.implementationStatus)
  IN  [overallScore |-> MathRound(overall),
       riskScores |-> adjusted,
       gapAnalysis |-> [implementedControls |-> totalCount,
                        totalControls |-> totalCount,
                        gapPercentage |-> gap.gapPercentage,
                        riskReduction |-> gap.totalRiskReduction]]

AssessmentResult(overall, adjusted, gap) ==
  LET implementedCount ==
        Cardinality({ id \in DOMAIN gap.implementationStatus :
                        gap.implementationStatus[id].implemented })
      totalCount == Cardinality(DOMAIN gap.implementationStatus)
  IN  [overallScore |-> MathRound(overall),
       riskScores |-> adjusted,
       gapAnalysis |-> [implementedControls |-> implementedCount,
                        totalControls |-> totalCount,
                        gapPercentage |-> gap.gapPercentage,
                        riskReduction |-> gap.totalRiskReduction]]

----------------------------------------------------------------------------
(* The handler *)

NoGapAnalysis ==
  [implementationStatus |-> << >>, totalRiskReduction |-> 0,
   gapPercentage |-> NaN]

NoAssessment ==
  [overallScore |-> NaN, riskScores |-> << >>,
   gapAnalysis |-> [implementedControls |-> 0, totalControls |-> 0,
                    gapPercentage |-> NaN, riskReduction |-> 0]]

NoUserInputs ==
  [aiModel |-> "", useCase |-> "", dataSensitivity |-> "", industry |-> "",
   accuracyReq |-> ""]

NoCompletion ==
  [empty |-> TRUE, braces |-> FALSE, valid |-> FALSE,
   overallScore |-> "absent", riskScores |-> "absent"]

NoResponse ==
  [status |-> 0, success |-> FALSE, error |-> "", assessmentType |-> ""]

\* no request is being handled
RequestIdle ==
  /\ userInputs = NoUserInputs
  /\ hasRiskAssessment = FALSE
  /\ checklistPresent = FALSE
  /\ apiKeyConfigured = TRUE

\* useState({ productName: '', ... }) of AssessmentForm
EmptyForm ==
  [productName |-> "", productManagerName |-> "", productManagerEmail |-> "",
   aiModel |-> "", useCase |-> "", dataSensitivity |-> "", industry |-> "",
   accuracyReq |-> "", hasRiskAssessment |-> ""]

\* the page as first rendered, nothing sent
ClientIdle ==
  /\ currentStep = "form"
  /\ homeFormData = << >>
  /\ homeAssessmentResult = "null"
  /\ isLoading = FALSE
  /\ formData = EmptyForm
  /\ responses = << >>
  /\ inFlight = {}
  /\ alertShown = ""

\* no request being handled
ConcurrentIdle ==
  /\ requests = << >>
  /\ locals = << >>

\* nothing rendered by ResultsDisplay
DisplayIdle ==
  /\ scoreLabel = ""
  /\ scoreColor = ""

\* the locals of the route before it runs
RouteLocalsInit ==
  /\ applicableRisks = << >>
  /\ frameworks = {}
  /\ branch = "none"
  /\ llmCalls = 0
  /\ completion = NoCompletion
  /\ aiGeneratedAnalysis = ""
  /\ finosRiskMitigations = << >>
  /\ contributingFactors = << >>
  /\ relevantExamples = << >>
  /\ response = NoResponse

\* the locals of the scorer steps before they run
ScorerLocalsInit ==
  /\ adjustedRiskScores = << >>
  /\ gapAnalysis = NoGapAnalysis
  /\ gapRecommendations = << >>
  /\ overallScore = NaN
  /\ implementedControls = << >>
  /\ missingControls = << >>
  /\ assessmentResult = NoAssessment

ScorerInit ==
  /\ checklistQuestions \in CatalogSet
  /\ baseRiskScores \in PartialMaps(RiskCategory, BaseValues)
  /\ checklistData \in PartialMaps(CatalogIds(checklistQuestions), AnswerValues)
  /\ pc = "start"
  /\ ScorerLocalsInit
  /\ RequestIdle
  /\ RouteLocalsInit
  /\ ClientIdle
  /\ ConcurrentIdle
  /\ DisplayIdle

\* const { adjustedRiskScores, gapAnalysis } = calculateRiskScoresWithGaps(...)
CalculateRiskScoresWithGaps ==
  /\ pc = "start"
  /\ LET r == calculateRiskScoresWithGaps(baseRiskScores, checklistData,
                                          checklistQuestions)
     IN  /\ adjustedRiskScores' = r.adjustedRiskScores
         /\ gapAnalysis' = r.gapAnalysis
  /\ pc' = "scored"
  /\ UNCHANGED nonScorerVars
  /\ UNCHANGED << checklistQuestions, baseRiskScores, checklistData,
                  gapRecommendations, overallScore, implementedControls,
                  missingControls, assessmentResult >>

\* const gapRecommendations = generateGapRecommendations(gapAnalysis)
GenerateGapRecommendations ==
  /\ pc = "scored"
  /\ gapRecommendations' = generateGapRecommendations(gapAnalysis)
  /\ pc' = "recommended"
  /\ UNCHANGED nonScorerVars
  /\ UNCHANGED << checklistQuestions, baseRiskScores, checklistData,
                  adjustedRiskScores, gapAnalysis, overallScore,
                  implementedControls, missingControls, assessmentResult >>

\* the overall compliance score and the lists of implemented and missing
\* controls handed to the analysis prompt
SummarizeControls ==
  /\ pc = "recommended"
  /\ overallScore' = OverallScore(adjustedRiskScores,
                                  gapAnalysis.totalRiskReduction)
  /\ implementedControls' =
       ControlsWhere(gapAnalysis.implementationStatus, checklistQuestions, TRUE)
  /\ missingControls' =
       ControlsWhere(gapAnalysis.implementationStatus, checklistQuestions, FALSE)
  /\ pc' = "summarized"
  /\ UNCHANGED nonScorerVars
  /\ UNCHANGED << checklistQuestions, baseRiskScores, checklistData,
                  adjustedRiskScores, gapAnalysis, gapRecommendations,
                  assessmentResult >>

\* const assessmentResult = { overallScore: Math.round(overallScore), ... }
BuildAssessmentResult ==
  /\ pc = "summarized"
  /\ assessmentResult' = AssessmentResult(overallScore, adjustedRiskScores,
                                          gapAnalysis)
  /\ pc' = "done"
  /\ UNCHANGED nonScorerVars
  /\ UNCHANGED << checklistQuestions, baseRiskScores, checklistData,
                  adjustedRiskScores, gapAnalysis, gapRecommendations,
                  overallScore, implementedControls, missingControls >>

ScorerNext ==
  \/ CalculateRiskScoresWithGaps
  \/ GenerateGapRecommendations
  \/ SummarizeControls
  \/ BuildAssessmentResult

ScorerSpec == ScorerInit /\ [][ScorerNext]_vars

----------------------------------------------------------------------------
(* Properties of the gap-adjusted risk scorer *)

Scored == pc # "start"
Summarized == pc \in {"summarized", "done"}

Categories == DOMAIN baseRiskScores

\* the answer given to a question is exactly 'yes'
AnsweredYes(id) == id \in DOMAIN checklistData /\ checklistData[id] = "yes"

\* every base score given is at least the floor
BasesAtLeastFloor == \A c \in Categories : baseRiskScores[c] >= Floor

\* sum of base score minus adjusted score over the input categories
SumOfReductions ==
  SumOver([c \in Categories |-> baseRiskScores[c] - adjustedRiskScores[c]],
          Categories)

\* sum of the weights of the catalog entries at the indices in I
RECURSIVE WeightAt(_)
WeightAt(I) ==
  IF I = {} THEN 0
  ELSE LET i == CHOOSE j \in I : TRUE
       IN  checklistQuestions[i].weight + WeightAt(I \ {i})

\* R of a category: the weights of its questions answered exactly 'yes'
YesWeight(c) ==
  WeightAt({ i \in 1..Len(checklistQuestions) :
               /\ checklistQuestions[i].category = c
               /\ AnsweredYes(checklistQuestions[i].id) })

C2_FloorInvariant ==
  Scored => /\ DOMAIN adjustedRiskScores = Categories
            /\ \A c \in Categories : adjustedRiskScores[c] >= Floor

\* a category whose weights would take the score below the floor
C2_Witness ==
  /\ Scored
  /\ \E c \in Categories : /\ baseRiskScores[c] > Floor
                           /\ baseRiskScores[c] - YesWeight(c) < Floor
                           /\ adjustedRiskScores[c] = Floor

ScenarioPartlyImplemented ==
  /\ checklistQuestions = SubSeq(MasterCatalog, 1, 2)
  /\ baseRiskScores = [c \in {"hallucination"} |-> 85]
  /\ checklistData = [id \in {1, 2} |-> IF id = 1 THEN "yes" ELSE "no"]

ScenarioCapped ==
  /\ checklistQuestions = SubSeq(MasterCatalog, 5, 6)
  /\ baseRiskScores = [c \in {"hallucination"} |-> 85]
  /\ checklistData = [id \in {4, 5} |-> "yes"]

\* C4: each adjusted score is max(floor, base - R), R the sum of the weights
\* of the category's questions answered exactly 'yes'; base 85 with weights
\* 20 (yes) and 15 (no) gives 65, and with weights 60 and 40 both yes gives
\* 10 with an applied reduction of 75.
C4_AdjustedScoreFormula ==
  Scored =>
    /\ \A c \in Categories :
         adjustedRiskScores[c] = Max(Floor, baseRiskScores[c] - YesWeight(c))
    /\ ScenarioPartlyImplemented => adjustedRiskScores["hallucination"] = 65
    /\ ScenarioCapped => /\ adjustedRiskScores["hallucination"] = 10
                         /\ gapAnalysis.totalRiskReduction = 75

C4_Witness == Scored /\ ScenarioPartlyImplemented

\* every answer given is 'no' or 'na'
AllNoOrNa == \A id \in DOMAIN checklistData : checklistData[id] \in {"no", "na"}

\* every catalog question is answered 'yes'
AllYes == \A id \in CatalogIds(checklistQuestions) : AnsweredYes(id)

\* no other checklist for the same catalog and base scores reduces any
\* category, or the total, by more than the present one
ReductionIsMaximal ==
  \A a \in PartialMaps(CatalogIds(checklistQuestions), AnswerValues) :
    LET r == calculateRiskScoresWithGaps(baseRiskScores, a, checklistQuestions)
    IN  /\ \A c \in Categories :
             baseRiskScores[c] - r.adjustedRiskScores[c]
               <= baseRiskScores[c] - adjustedRiskScores[c]
        /\ r.gapAnalysis.totalRiskReduction <= gapAnalysis.totalRiskReduction

----------------------------------------------------------------------------
(* Properties of the overall score, the gap report and the recommendations *)

\* 100 - average(adjusted scores) + totalRiskReduction / 2 as the fraction
\* UnclampedNum / UnclampedDen
UnclampedDen == 2 * Cardinality(Categories)
UnclampedNum ==
  200 * Cardinality(Categories)
  - 2 * SumOver(adjustedRiskScores, Categories)
  + Cardinality(Categories) * gapAnalysis.totalRiskReduction

\* C6: for a non-empty set of adjusted scores the overall score is
\* clamp(100 - average(adjusted scores) + totalRiskReduction / 2, 10, 100),
\* and the response carries it rounded to the nearest integer, within 10..100.
C6_OverallScoreClamped ==
  (Summarized /\ Categories # {}) =>
    /\ overallScore.den > 0
    /\ IF UnclampedNum < 10 * UnclampedDen
         THEN overallScore.num = 10 * overallScore.den
       ELSE IF UnclampedNum > 100 * UnclampedDen
         THEN overallScore.num = 100 * overallScore.den
       ELSE overallScore.num * UnclampedDen = UnclampedNum * overallScore.den
    /\ pc = "done" =>
         LET r == assessmentResult.overallScore
         IN  /\ r.den = 1
             /\ r.num \in 10..100
             /\ 2 * (r.num * overallScore.den - overallScore.num)
                  <= overallScore.den
             /\ 2 * (overallScore.num - r.num * overallScore.den)
                  <= overallScore.den

\* a response whose overall score lies strictly within the limits, owes part
\* of its value to the halved reduction and was rounded from a fraction
C6_Witness ==
  /\ pc = "done"
  /\ Categories # {}
  /\ gapAnalysis.totalRiskReduction > 0
  /\ 10 * UnclampedDen < UnclampedNum
  /\ UnclampedNum < 100 * UnclampedDen
  /\ UnclampedNum % UnclampedDen # 0

\* C7: a question's status is 'implemented' exactly when its answer is
\* 'yes'; 'no', 'na', a malformed and a missing answer all count as not
\* implemented, and every catalog question gets a status and a place in the
\* control lists whatever the answers are.
C7_ImplementedIffYes ==
  /\ Scored =>
       LET status == gapAnalysis.implementationStatus
       IN  /\ DOMAIN status = CatalogIds(checklistQuestions)
           /\ \A id \in DOMAIN status :
                /\ status[id].implemented \in BOOLEAN
                /\ id \notin DOMAIN checklistData => ~status[id].implemented
                /\ id \in DOMAIN checklistData =>
                     /\ checklistData[id] = "yes" => status[id].implemented
                     /\ checklistData[id] \in {"no", "na", "maybe"}
                          => ~status[id].implemented
  /\ Summarized =>
       /\ { implementedControls[i] : i \in 1..Len(implementedControls) }
            = { id \in CatalogIds(checklistQuestions) : AnsweredYes(id) }
       /\ { missingControls[i] : i \in 1..Len(missingControls) }
            = { id \in CatalogIds(checklistQuestions) : ~AnsweredYes(id) }

\* a request with a malformed answer and a question without answer
C7_Witness ==
  /\ Summarized
  /\ \E id \in DOMAIN checklistData : checklistData[id] = "maybe"
  /\ CatalogIds(checklistQuestions) \ DOMAIN checklistData # {}
  /\ Len(missingControls) = Len(checklistQuestions)

\* the catalog questions whose answer is not 'yes'
NotYes == { id \in CatalogIds(checklistQuestions) : ~AnsweredYes(id) }

GapReportConsistent ==
  LET g == assessmentResult.gapAnalysis
  IN  /\ g.totalControls = Len(checklistQuestions)
      /\ g.gapPercentage.den > 0
      /\ g.gapPercentage.num * g.totalControls
           = 100 * Cardinality(NotYes) * g.gapPercentage.den
      /\ g.implementedControls + Cardinality(NotYes) = g.totalControls

Recommended == pc \notin {"start", "scored"}

\* the catalog question with a given id
QuestionWithId(id) ==
  CHOOSE q \in { checklistQuestions[i] : i \in 1..Len(checklistQuestions) } :
    q.id = id

\* C9: the recommendations are exactly one per not-implemented question and
\* none for an implemented one, each with its question's category and
\* weight, by descending weight and, on equal weights, ascending question
\* id; two missing controls of weight 30 with ids 3 and 7 come out as [3, 7].
C9_RecommendationsOrdered ==
  Recommended =>
    /\ Len(gapRecommendations) = Cardinality(NotYes)
    /\ { gapRecommendations[i].questionId : i \in 1..Len(gapRecommendations) }
         = NotYes
    /\ \A i \in 1..Len(gapRecommendations) :
         LET r == gapRecommendations[i]
         IN  /\ r.category = QuestionWithId(r.questionId).category
             /\ r.weight = QuestionWithId(r.questionId).weight
    /\ \A i, j \in 1..Len(gapRecommendations) :
         i < j =>
           \/ gapRecommendations[i].weight > gapRecommendations[j].weight
           \/ /\ gapRecommendations[i].weight = gapRecommendations[j].weight
              /\ gapRecommendations[i].questionId
                   < gapRecommendations[j].questionId
    /\ (CatalogIds(checklistQuestions) = {3, 7} /\ NotYes = {3, 7})
         => /\ gapRecommendations[1].questionId = 3
            /\ gapRecommendations[2].questionId = 7

\* the catalog lists question 7 before question 3, both weigh 30 and both
\* are missing
C9_Witness ==
  /\ Recommended
  /\ checklistQuestions = SubSeq(MasterCatalog, 3, 4)
  /\ NotYes = {3, 7}
  /\ Len(gapRecommendations) = 2

----------------------------------------------------------------------------
(* app/api/assess/route.ts: the risk rules *)

\* values a request can carry; "" stands for an empty or unrecognised value
AiModelValues == {"", "selfHosted", "apiBased", "thirdParty"}
UseCaseValues == {"", "customerService", "documentAnalysis", "codeGeneration",
                  "dataAnalysis", "contentGeneration", "decisionSupport"}
DataSensitivityValues == {"", "public", "internal", "confidential", "restricted"}
IndustryValues == {"", "financial", "healthcare", "retail"}
AccuracyReqValues == {"", "low", "moderate", "high", "critical"}

UserInputs ==
  [aiModel : AiModelValues, useCase : UseCaseValues,
   dataSensitivity : DataSensitivityValues, industry : IndustryValues,
   accuracyReq : AccuracyReqValues]

\* [...new Set(list)]: the first occurrence of each element, in order
RECURSIVE Unique(_)
Unique(list) ==
  IF list = << >> THEN << >>
  ELSE LET front == Unique(SubSeq(list, 1, Len(list) - 1))
           last == list[Len(list)]
       IN  IF \E i \in 1..Len(front) : front[i] = last
             THEN front ELSE Append(front, last)

\* the risks the three rules push, in order
RisksPushed(u) ==
  (IF \/ u.accuracyReq = "critical"
      \/ u.accuracyReq = "high"
      \/ u.industry = "financial"
      \/ u.industry = "healthcare"
      \/ u.useCase = "decisionSupport"
      \/ u.useCase = "dataAnalysis"
     THEN << "hallucination" >> ELSE << >>)
  \o
  (IF \/ u.useCase = "customerService"
      \/ u.useCase = "documentAnalysis"
      \/ u.aiModel = "thirdParty"
      \/ u.aiModel = "apiBased"
      \/ u.dataSensitivity = "confidential"
      \/ u.dataSensitivity = "restricted"
     THEN << "promptInjection" >> ELSE << >>)
  \o
  (IF \/ u.aiModel = "thirdParty"
      \/ u.aiModel = "apiBased"
      \/ u.dataSensitivity = "confidential"
      \/ u.dataSensitivity = "restricted"
      \/ u.industry = "financial"
      \/ u.industry = "healthcare"
     THEN << "dataLeakage" >> ELSE << >>)

\* variant: no default when no rule matches
determineApplicableRisksNoDefault(u) == Unique(RisksPushed(u))

determineApplicableRisks(u) ==
  LET pushed == RisksPushed(u)
  IN  Unique(IF Len(pushed) = 0 THEN << "promptInjection" >> ELSE pushed)

\* the elements of a list
Elements(list) == { list[i] : i \in 1..Len(list) }

\* Object.keys(loadRelevantFrameworkData(applicableRisks))
loadRelevantFrameworkData(risks) ==
  { k \in {"hallucination", "promptInjection", "dataLeakage"} :
      k \in Elements(risks) }

\* variant: the default of the fallback result is used
BaseRiskScoreDefault60(risk, u) ==
  IF risk = "dataLeakage" /\ (u.aiModel = "thirdParty" \/ u.aiModel = "apiBased")
    THEN 80
  ELSE IF risk = "hallucination" /\ u.accuracyReq = "critical" THEN 85
  ELSE IF risk = "promptInjection" /\ u.useCase = "customerService" THEN 75
  ELSE 60

\* the base score the checklist path assigns to a risk
BaseRiskScore(risk, u) ==
  IF risk = "dataLeakage" /\ (u.aiModel = "thirdParty" \/ u.aiModel = "apiBased")
    THEN 80
  ELSE IF risk = "hallucination" /\ u.accuracyReq = "critical" THEN 85
  ELSE IF risk = "promptInjection" /\ u.useCase = "customerService" THEN 75
  ELSE 70

\* variant: only the risks with a rule of their own get a score
BaseRiskScoresRuledOnly(risks, u) ==
  [risk \in { r \in Elements(risks) : BaseRiskScore(r, u) # 70 } |->
     BaseRiskScore(risk, u)]

\* applicableRisks.forEach(risk => baseRiskScores[risk] = ...)
BaseRiskScores(risks, u) ==
  [risk \in Elements(risks) |-> BaseRiskScore(risk, u)]

\* variant: the flag alone selects the checklist assessment
UsesChecklistFlagOnly(has, present) == has

\* hasRiskAssessment && checklistData
UsesChecklist(has, present) == has /\ present

\* const applicableRisks = determineApplicableRisks(userInputs)
DetermineApplicableRisks ==
  /\ pc = "determine"
  /\ applicableRisks' = determineApplicableRisks(userInputs)
  /\ pc' = "load"
  /\ UNCHANGED << scorerVars, envVars, frameworks, branch, llmCalls,
                  completion, aiGeneratedAnalysis, finosRiskMitigations,
                  contributingFactors, relevantExamples, response >>

\* const frameworks = loadRelevantFrameworkData(applicableRisks)
LoadRelevantFrameworkData ==
  /\ pc = "load"
  /\ frameworks' = loadRelevantFrameworkData(applicableRisks)
  /\ pc' = "dispatch"
  /\ UNCHANGED << scorerVars, envVars, applicableRisks, branch, llmCalls,
                  completion, aiGeneratedAnalysis, finosRiskMitigations,
                  contributingFactors, relevantExamples, response >>

\* if (hasRiskAssessment && checklistData) ... else ...
Dispatch ==
  /\ pc = "dispatch"
  /\ branch' = IF UsesChecklist(hasRiskAssessment, checklistPresent)
                 THEN "checklist" ELSE "standard"
  /\ pc' = IF UsesChecklist(hasRiskAssessment, checklistPresent)
             THEN "base" ELSE "standard"
  /\ UNCHANGED << scorerVars, envVars, applicableRisks, frameworks,
                  llmCalls, completion, aiGeneratedAnalysis,
                  finosRiskMitigations, contributingFactors, relevantExamples,
                  response >>

\* the base risk scores of the checklist path
AssignBaseRiskScores ==
  /\ pc = "base"
  /\ baseRiskScores' = BaseRiskScores(applicableRisks, userInputs)
  /\ pc' = "start"
  /\ UNCHANGED << checklistQuestions, checklistData, adjustedRiskScores,
                  gapAnalysis, gapRecommendations, overallScore,
                  implementedControls, missingControls, assessmentResult >>
  /\ UNCHANGED nonScorerVars

\* the risk rules on every combination of input values
RiskRulesInit ==
  /\ userInputs \in UserInputs
  /\ hasRiskAssessment = TRUE
  /\ checklistPresent = TRUE
  /\ apiKeyConfigured = TRUE
  /\ checklistQuestions = SubSeq(MasterCatalog, 1, 1)
  /\ baseRiskScores = << >>
  /\ checklistData = << >>
  /\ pc = "determine"
  /\ ScorerLocalsInit
  /\ RouteLocalsInit
  /\ ClientIdle
  /\ ConcurrentIdle
  /\ DisplayIdle

RiskRulesNext ==
  \/ DetermineApplicableRisks
  \/ LoadRelevantFrameworkData
  \/ Dispatch
  \/ AssignBaseRiskScores

RiskRulesSpec == RiskRulesInit /\ [][RiskRulesNext]_vars

----------------------------------------------------------------------------
(* Properties of the risk rules *)

\* determineApplicableRisks has run
Determined == pc \notin {"post", "determine"} /\ applicableRisks # << >>

\* none of the values the three rules look for is present
NoRuleMatches ==
  /\ userInputs.accuracyReq \notin {"critical", "high"}
  /\ userInputs.industry \notin {"financial", "healthcare"}
  /\ userInputs.useCase \notin {"decisionSupport", "dataAnalysis",
                                "customerService", "documentAnalysis"}
  /\ userInputs.aiModel \notin {"thirdParty", "apiBased"}
  /\ userInputs.dataSensitivity \notin {"confidential", "restricted"}

\* C18: for every combination of aiModel, useCase, dataSensitivity, industry
\* and accuracyReq values, determineApplicableRisks returns a non-empty list
\* without duplicates of risks among hallucination, promptInjection and
\* dataLeakage; when no rule matches it is exactly [promptInjection].
C18_ApplicableRisksNonEmpty ==
  pc \notin {"post", "determine"} =>
    /\ Len(applicableRisks) >= 1
    /\ \A i, j \in 1..Len(applicableRisks) :
         i # j => applicableRisks[i] # applicableRisks[j]
    /\ Elements(applicableRisks) \subseteq RiskCategory
    /\ NoRuleMatches => applicableRisks = << "promptInjection" >>

\* an input no rule matches, with unrecognised and empty values
C18_Witness ==
  /\ Determined
  /\ NoRuleMatches
  /\ userInputs.industry = ""
  /\ userInputs.aiModel = "selfHosted"
  /\ applicableRisks = << "promptInjection" >>

\* C19: in the checklist path every applicable risk gets exactly one base
\* score: dataLeakage 80 when aiModel is thirdParty or apiBased,
\* hallucination 85 when accuracyReq is critical, promptInjection 75 when
\* useCase is customerService, 70 otherwise; all within {70, 75, 80, 85}.
C19_BaseScoresByRule ==
  (branch = "checklist" /\ pc # "base") =>
    /\ DOMAIN baseRiskScores = Elements(applicableRisks)
    /\ \A risk \in DOMAIN baseRiskScores :
         /\ baseRiskScores[risk] \in {70, 75, 80, 85}
         /\ baseRiskScores[risk] \in 0..100
         /\ baseRiskScores[risk] = 80
              <=> /\ risk = "dataLeakage"
                  /\ userInputs.aiModel \in {"thirdParty", "apiBased"}
         /\ baseRiskScores[risk] = 85
              <=> /\ risk = "hallucination"
                  /\ userInputs.accuracyReq = "critical"
         /\ baseRiskScores[risk] = 75
              <=> /\ risk = "promptInjection"
                  /\ userInputs.useCase = "customerService"

\* a request whose three risks get a ruled score, a default and a ruled score
C19_Witness ==
  /\ branch = "checklist"
  /\ pc = "start"
  /\ DOMAIN baseRiskScores = RiskCategory
  /\ baseRiskScores["hallucination"] = 85
  /\ baseRiskScores["promptInjection"] = 70
  /\ baseRiskScores["dataLeakage"] = 80

----------------------------------------------------------------------------
(* app/api/assess/route.ts: POST and the two assessments *)

\* a sample of the framework files under data/: the fields the route reads
FrameworkData ==
  [hallucination |->
     [id |-> "AIR-OP-004",
      key_mitigations |-> << "AIR-PREV-005", "AIR-DET-015" >>,
      contributing_factors |-> << "OP-F1", "OP-F2", "OP-F3" >>,
      examples |-> << "OP-E1", "OP-E2" >>],
   promptInjection |->
     [id |-> "AIR-SEC-010",
      key_mitigations |-> << "AIR-PREV-017", "AIR-PREV-003" >>,
      contributing_factors |-> << "SEC-F1" >>,
      examples |-> << "SEC-E1" >>],
   dataLeakage |->
     [id |-> "AIR-RC-001",
      key_mitigations |-> << "AIR-DET-001" >>,
      contributing_factors |-> << "RC-F1", "RC-F2" >>,
      examples |-> << >>]]

\* list.slice(0, n)
Slice(list, n) == SubSeq(list, 1, Min(n, Len(list)))

\* variant: a score of exactly 70 is not yet High
PriorityAbove70(score) ==
  IF score > 70 THEN "High" ELSE IF score >= 60 THEN "Medium" ELSE "Low"

\* score >= 70 ? 'High' : score >= 60 ? 'Medium' : 'Low'
Priority(score) ==
  IF score >= 70 THEN "High" ELSE IF score >= 60 THEN "Medium" ELSE "Low"

\* lowest adjusted score whose risk still gets mitigations listed
MitigationThreshold == 50

\* the risks whose entries are listed: score >= 50 and framework loaded,
\* in the order of the adjusted scores' keys
RECURSIVE RisksToMitigate(_, _, _)
RisksToMitigate(risks, adjusted, loaded) ==
  IF risks = << >> THEN << >>
  ELSE LET r == Head(risks)
           rest == RisksToMitigate(Tail(risks), adjusted, loaded)
       IN  IF r \in DOMAIN adjusted /\ adjusted[r] >= MitigationThreshold
              /\ r \in loaded
             THEN << r >> \o rest ELSE rest

\* the concatenation of f(r) over the list
RECURSIVE FlatMap(_, _)
FlatMap(risks, f) ==
  IF risks = << >> THEN << >>
  ELSE f[Head(risks)] \o FlatMap(Tail(risks), f)

MitigationsOf(adjusted) ==
  [r \in DOMAIN adjusted |->
     [i \in 1..Len(FrameworkData[r].key_mitigations) |->
        [riskId |-> FrameworkData[r].id,
         mitigationId |-> FrameworkData[r].key_mitigations[i],
         priority |-> Priority(adjusted[r])]]]

FactorsOf(adjusted) ==
  [r \in DOMAIN adjusted |->
     LET factors == Slice(FrameworkData[r].contributing_factors, 2)
     IN  [i \in 1..Len(factors) |->
            [riskId |-> FrameworkData[r].id,
             factor |-> factors[i],
             relevance |-> Priority(adjusted[r])]]]

ExamplesOf(adjusted) ==
  [r \in DOMAIN adjusted |->
     LET examples == Slice(FrameworkData[r].examples, 1)
     IN  [i \in 1..Len(examples) |->
            [riskId |-> FrameworkData[r].id, exampleTitle |-> examples[i]]]]

\* texts the completion can carry: nothing, prose without braces, braces
\* around something that is not JSON, or braces around a JSON object whose
\* overallScore is absent, 0 or positive and whose riskScores is absent or
\* an object
CompletionTexts ==
  { [empty |-> TRUE, braces |-> FALSE, valid |-> FALSE,
     overallScore |-> "absent", riskScores |-> "absent"],
    [empty |-> FALSE, braces |-> FALSE, valid |-> FALSE,
     overallScore |-> "absent", riskScores |-> "absent"],
    [empty |-> FALSE, braces |-> TRUE, valid |-> FALSE,
     overallScore |-> "absent", riskScores |-> "absent"] }
  \cup
  [empty : {FALSE}, braces : {TRUE}, valid : {TRUE},
   overallScore : {"absent", "zero", "positive"},
   riskScores : {"absent", "present"}]

\* the document '{}'
EmptyObject ==
  [valid |-> TRUE, overallScore |-> "absent", riskScores |-> "absent"]

\* extractJsonFromResponse(responseText || '{}')
extractJsonFromResponse(text) ==
  IF text.empty THEN EmptyObject
  ELSE IF text.braces
    THEN [valid |-> text.valid, overallScore |-> text.overallScore,
          riskScores |-> text.riskScores]
  ELSE EmptyObject

\* JSON.parse throws
ParseThrows(document) == ~document.valid

\* !assessmentResult.overallScore || !assessmentResult.riskScores
MissingRequiredFields(object) ==
  \/ object.overallScore \in {"absent", "zero"}
  \/ object.riskScores = "absent"

\* the catch block is entered
UsesFallback(text) ==
  LET document == extractJsonFromResponse(text)
  IN  ParseThrows(document) \/ MissingRequiredFields(document)

\* the scores an LLM result carries, as far as the route is concerned
LlmOverallScore == 72
LlmRiskScore == 90

\* JSON.parse of a document that carries both fields
ParsedResult(document, risks) ==
  [overallScore |->
     Num(IF document.overallScore = "zero" THEN 0 ELSE LlmOverallScore),
   riskScores |-> [r \in Elements(risks) |-> LlmRiskScore]]

fallbackComplianceScore(u) ==
  IF u.dataSensitivity = "restricted" THEN 45
  ELSE IF u.dataSensitivity = "confidential" THEN 55
  ELSE IF u.aiModel = "thirdParty" \/ u.aiModel = "apiBased" THEN 60
  ELSE 70

FallbackRiskScore(risk, u) ==
  IF risk = "dataLeakage" /\ (u.aiModel = "thirdParty" \/ u.aiModel = "apiBased")
    THEN 75
  ELSE IF risk = "hallucination" /\ u.accuracyReq = "critical" THEN 80
  ELSE IF risk = "promptInjection" /\ u.useCase = "customerService" THEN 70
  ELSE 60

FallbackResult(risks, u) ==
  [overallScore |-> Num(fallbackComplianceScore(u)),
   riskScores |-> [r \in Elements(risks) |-> FallbackRiskScore(r, u)]]

\* variant: a missing key is not noticed
MissingApiKeyIgnored(configured) == FALSE

\* !process.env.OPENAI_API_KEY
MissingApiKey(configured) == ~configured

\* variant: the analysis call is made again after a failure
PcRetryAnalysis == "summarized"

\* where the checklist assessment goes on after the analysis call threw
PcAfterAnalysisError == "analysed"

ErrorResponse(message) ==
  [status |-> 500, success |-> FALSE, error |-> message,
   assessmentType |-> ""]

\* POST, up to the key check: request.json() may reject the body, and a
\* missing key is answered before anything else is done
PostEntry ==
  /\ pc = "post"
  /\ IF MissingApiKey(apiKeyConfigured)
       THEN /\ response' = ErrorResponse("OpenAI API key not configured")
            /\ pc' = "responded"
       ELSE /\ response' = response
            /\ pc' = "determine"
  /\ UNCHANGED << scorerVars, envVars, applicableRisks, frameworks, branch,
                  llmCalls, completion, aiGeneratedAnalysis,
                  finosRiskMitigations, contributingFactors, relevantExamples >>

\* await request.json() throws: the catch block of POST answers
PostRejectsBody ==
  /\ pc = "post"
  /\ pc' = "failed"
  /\ UNCHANGED << scorerVars, envVars, routeVars >>

\* catch (error) of POST
PostCatch ==
  /\ pc = "failed"
  /\ response' = ErrorResponse("Failed to perform assessment")
  /\ pc' = "responded"
  /\ UNCHANGED << scorerVars, envVars, applicableRisks, frameworks, branch,
                  llmCalls, completion, aiGeneratedAnalysis,
                  finosRiskMitigations, contributingFactors, relevantExamples >>

\* handleStandardAssessment: the completion call; it returns a text or throws
CallCompletion ==
  /\ pc = "standard"
  /\ llmCalls' = llmCalls + 1
  /\ \/ /\ completion' \in CompletionTexts
        /\ pc' = "parse"
     \/ /\ completion' = completion
        /\ pc' = "failed"
  /\ UNCHANGED << scorerVars, envVars, applicableRisks, frameworks, branch,
                  aiGeneratedAnalysis, finosRiskMitigations,
                  contributingFactors, relevantExamples, response >>

\* handleStandardAssessment: parse the text or fall back, then answer
ParseCompletion ==
  /\ pc = "parse"
  /\ assessmentResult' =
       IF UsesFallback(completion)
         THEN FallbackResult(applicableRisks, userInputs)
         ELSE ParsedResult(extractJsonFromResponse(completion),
                           applicableRisks)
  /\ response' = [status |-> 200, success |-> TRUE, error |-> "",
                  assessmentType |-> "standard"]
  /\ pc' = "responded"
  /\ UNCHANGED << checklistQuestions, baseRiskScores, checklistData,
                  adjustedRiskScores, gapAnalysis, gapRecommendations,
                  overallScore, implementedControls, missingControls >>
  /\ UNCHANGED << envVars, applicableRisks, frameworks, branch, llmCalls,
                  completion, aiGeneratedAnalysis, finosRiskMitigations,
                  contributingFactors, relevantExamples >>

\* handleChecklistAssessment: the analysis call inside its own try/catch
GenerateAnalysis ==
  /\ pc = "summarized"
  /\ branch = "checklist"
  /\ llmCalls' = llmCalls + 1
  /\ \/ /\ aiGeneratedAnalysis' = "llm"
        /\ pc' = "analysed"
     \/ /\ aiGeneratedAnalysis' = "fallback"
        /\ pc' = PcAfterAnalysisError
  /\ UNCHANGED << scorerVars, envVars, applicableRisks, frameworks, branch,
                  completion, finosRiskMitigations, contributingFactors,
                  relevantExamples, response >>

\* Object.entries(adjustedRiskScores).forEach(...)
CollectMitigations ==
  /\ pc = "analysed"
  /\ LET risks == RisksToMitigate(applicableRisks, adjustedRiskScores, frameworks)
     IN  /\ finosRiskMitigations' = FlatMap(risks, MitigationsOf(adjustedRiskScores))
         /\ contributingFactors' = FlatMap(risks, FactorsOf(adjustedRiskScores))
         /\ relevantExamples' = FlatMap(risks, ExamplesOf(adjustedRiskScores))
  /\ pc' = "collected"
  /\ UNCHANGED << scorerVars, envVars, applicableRisks, frameworks, branch,
                  llmCalls, completion, aiGeneratedAnalysis, response >>

\* the assessment result and the response of the checklist assessment
RespondChecklist ==
  /\ pc = "collected"
  /\ assessmentResult' =
       AssessmentResult(overallScore, adjustedRiskScores, gapAnalysis)
  /\ response' = [status |-> 200, success |-> TRUE, error |-> "",
                  assessmentType |-> "gap_analysis"]
  /\ pc' = "responded"
  /\ UNCHANGED << checklistQuestions, baseRiskScores, checklistData,
                  adjustedRiskScores, gapAnalysis, gapRecommendations,
                  overallScore, implementedControls, missingControls >>
  /\ UNCHANGED << envVars, applicableRisks, frameworks, branch, llmCalls,
                  completion, aiGeneratedAnalysis, finosRiskMitigations,
                  contributingFactors, relevantExamples >>

\* the request bodies the route is run on
RouteUserInputs ==
  [aiModel : {"selfHosted", "thirdParty"},
   useCase : {"customerService", "codeGeneration"},
   dataSensitivity : {"public", "confidential", "restricted"},
   industry : {""},
   accuracyReq : {"critical", "moderate"}]

RouteInit ==
  /\ userInputs \in RouteUserInputs
  /\ hasRiskAssessment \in BOOLEAN
  /\ checklistPresent \in BOOLEAN
  /\ apiKeyConfigured \in BOOLEAN
  /\ checklistQuestions \in CatalogSet
  /\ checklistData \in
       IF checklistPresent
         THEN PartialMaps(CatalogIds(checklistQuestions), AnswerValues)
         ELSE { << >> }
  /\ baseRiskScores = << >>
  /\ pc = "post"
  /\ ScorerLocalsInit
  /\ RouteLocalsInit
  /\ ClientIdle
  /\ ConcurrentIdle
  /\ DisplayIdle

RouteNext ==
  \/ PostEntry
  \/ PostRejectsBody
  \/ PostCatch
  \/ DetermineApplicableRisks
  \/ LoadRelevantFrameworkData
  \/ Dispatch
  \/ CallCompletion
  \/ ParseCompletion
  \/ AssignBaseRiskScores
  \/ CalculateRiskScoresWithGaps
  \/ GenerateGapRecommendations
  \/ SummarizeControls
  \/ GenerateAnalysis
  \/ CollectMitigations
  \/ RespondChecklist

RouteSpec == RouteInit /\ [][RouteNext]_vars

----------------------------------------------------------------------------
(* Properties of the route *)

Responded == pc = "responded"

\* C16: a request made while OPENAI_API_KEY is not configured is answered
\* with an error and status 500, whichever assessment its body asks for,
\* and the route has then neither determined the applicable risks, nor
\* loaded framework data, nor called the LLM; it never gets past the check.
C16_MissingKeyAnswers500 ==
  ~apiKeyConfigured =>
    /\ pc \in {"post", "failed", "responded"}
    /\ applicableRisks = << >>
    /\ frameworks = {}
    /\ branch = "none"
    /\ llmCalls = 0
    /\ Responded =>
         /\ response.status = 500
         /\ ~response.success
         /\ response.error # ""

\* a request asking for the checklist assessment was answered 500 with the
\* key message
C16_Witness ==
  /\ ~apiKeyConfigured
  /\ UsesChecklist(hasRiskAssessment, checklistPresent)
  /\ Responded
  /\ response = ErrorResponse("OpenAI API key not configured")

\* C14: a request calls the text-generation service at most once, on the
\* standard and on the checklist branch alike, whatever the call returns:
\* a failed or unusable completion is never retried.
C14_AtMostOneLlmCall ==
  /\ llmCalls <= 1
  /\ (Responded /\ response.success) => llmCalls = 1

\* the checklist assessment answered after its one call had failed
C14_Witness ==
  /\ Responded
  /\ branch = "checklist"
  /\ aiGeneratedAnalysis = "fallback"
  /\ llmCalls = 1

\* the standard assessment answered after a completion it could not use
C14_WitnessStandard ==
  /\ Responded
  /\ branch = "standard"
  /\ response.success
  /\ UsesFallback(completion)
  /\ llmCalls = 1

StandardAnswered ==
  Responded /\ branch = "standard" /\ response.success

\* the text is not JSON once extracted, or its object has no overallScore
\* or no riskScores
Unusable(text) ==
  LET document == extractJsonFromResponse(text)
  IN  \/ ~document.valid
      \/ document.overallScore = "absent"
      \/ document.riskScores = "absent"

\* C15: the standard assessment answers with the canned fallback exactly
\* when the completion text cannot be parsed as JSON or its object lacks
\* overallScore or riskScores, and with the parsed object unchanged
\* otherwise; the fallback scores exactly the applicable risks with values
\* in {60, 70, 75, 80} and has an overall score in {45, 55, 60, 70}.
C15_FallbackExactlyWhenUnusable ==
  StandardAnswered =>
    LET fallback == FallbackResult(applicableRisks, userInputs)
    IN  /\ (assessmentResult = fallback) <=> Unusable(completion)
        /\ ~Unusable(completion) =>
             assessmentResult =
               ParsedResult(extractJsonFromResponse(completion), applicableRisks)
        /\ DOMAIN fallback.riskScores = Elements(applicableRisks)
        /\ \A r \in DOMAIN fallback.riskScores :
             fallback.riskScores[r] \in {60, 70, 75, 80}
        /\ fallback.overallScore \in {Num(45), Num(55), Num(60), Num(70)}

\* a completion whose object has overallScore 0 and riskScores was answered
\* with the canned fallback
C15_ZeroScoreReplaced ==
  /\ StandardAnswered
  /\ completion.valid /\ completion.braces
  /\ completion.overallScore = "zero"
  /\ completion.riskScores = "present"
  /\ assessmentResult = FallbackResult(applicableRisks, userInputs)

\* the checklist assessment has assigned its base scores
BasesAssigned ==
  branch = "checklist" /\ pc \notin {"dispatch", "base"}

\* the checklist assessment has its adjusted scores
Adjusted ==
  branch = "checklist" /\ pc \notin {"dispatch", "base", "start"}

GapAnswered ==
  Responded /\ response.assessmentType = "gap_analysis"

\* C11: the adjusted scores have exactly the categories of the base scores
\* handed to the scorer: a category without a base score is absent from
\* the output, whatever the checklist answers about it; in the checklist
\* assessment both are the applicable risks, and so are the keys of the
\* riskScores of the response.
C11_CategoriesPreserved ==
  /\ BasesAssigned => DOMAIN baseRiskScores = Elements(applicableRisks)
  /\ Adjusted => DOMAIN adjustedRiskScores = DOMAIN baseRiskScores
  /\ GapAnswered =>
       DOMAIN assessmentResult.riskScores = Elements(applicableRisks)

\* a gap analysis was answered for a checklist that answers yes to a
\* question of a category that is not an applicable risk
C11_Witness ==
  /\ GapAnswered
  /\ \E i \in 1..Len(checklistQuestions) :
       /\ checklistQuestions[i].category \notin Elements(applicableRisks)
       /\ checklistQuestions[i].id \in DOMAIN checklistData
       /\ checklistData[checklistQuestions[i].id] = "yes"
  /\ Elements(applicableRisks) = DOMAIN assessmentResult.riskScores

\* the checklist assessment has collected its mitigations
Collected == branch = "checklist" /\ pc \in {"collected", "responded"}

\* the risks whose framework has the given id
RisksWithId(id) ==
  { r \in DOMAIN adjustedRiskScores : FrameworkData[r].id = id }

\* the level the claim gives to a score of at least 50
LevelOf(score) ==
  CASE score >= 70 -> "High"
    [] score >= 60 /\ score <= 69 -> "Medium"
    [] score >= 50 /\ score <= 59 -> "Low"
    [] OTHER -> "none"

C20_WitnessMedium ==
  /\ GapAnswered
  /\ \E i \in 1..Len(finosRiskMitigations) :
       finosRiskMitigations[i].priority = "Medium"

----------------------------------------------------------------------------
(* POST handling several requests: an invocation runs up to its await of
   the completion call, and finishes when the call has returned *)

\* requests handled at the same time
NumRequests == 2

RequestIds == 1..NumRequests

\* the catalog the route imports
ImportedCatalog == SubSeq(MasterCatalog, 1, 2)

ThirdPartyCritical ==
  [aiModel |-> "thirdParty", useCase |-> "customerService",
   dataSensitivity |-> "restricted", industry |-> "",
   accuracyReq |-> "critical"]

SelfHostedModerate ==
  [aiModel |-> "selfHosted", useCase |-> "codeGeneration",
   dataSensitivity |-> "public", industry |-> "",
   accuracyReq |-> "moderate"]

\* the bodies requests carry: without checklist data, or with the data of
\* an empty or an all-yes checklist
RequestBodies ==
  [userInputs : {ThirdPartyCritical, SelfHostedModerate},
   hasRiskAssessment : BOOLEAN, checklistPresent : {FALSE},
   checklistData : { << >> }]
  \cup
  [userInputs : {ThirdPartyCritical, SelfHostedModerate},
   hasRiskAssessment : BOOLEAN, checklistPresent : {TRUE},
   checklistData : { << >>, [id \in CatalogIds(ImportedCatalog) |-> "yes"] }]

\* what the completion call does: it throws, returns a usable JSON
\* object, or returns nothing usable
Outcomes == {"throws", "usable", "unusable"}

TextOf(outcome) ==
  IF outcome = "usable"
    THEN [empty |-> FALSE, braces |-> TRUE, valid |-> TRUE,
          overallScore |-> "positive", riskScores |-> "present"]
    ELSE NoCompletion

NoLocals ==
  [userInputs |-> NoUserInputs, applicableRisks |-> << >>, frameworks |-> {},
   usesChecklist |-> FALSE, adjustedRiskScores |-> << >>,
   gapAnalysis |-> NoGapAnalysis, overallScore |-> NaN]

\* the const declarations of POST and its handler up to the completion call
LocalsOf(body, catalog) ==
  LET risks == determineApplicableRisks(body.userInputs)
      uses == UsesChecklist(body.hasRiskAssessment, body.checklistPresent)
      scored == calculateRiskScoresWithGaps(
                  BaseRiskScores(risks, body.userInputs),
                  body.checklistData, catalog)
  IN  [userInputs |-> body.userInputs,
       applicableRisks |-> risks,
       frameworks |-> loadRelevantFrameworkData(risks),
       usesChecklist |-> uses,
       adjustedRiskScores |-> IF uses THEN scored.adjustedRiskScores ELSE << >>,
       gapAnalysis |-> IF uses THEN scored.gapAnalysis ELSE NoGapAnalysis,
       overallScore |->
         IF uses
           THEN OverallScore(scored.adjustedRiskScores,
                             scored.gapAnalysis.totalRiskReduction)
           ELSE NaN]

\* NextResponse.json({ error }, { status: 500 })
FailureResponse(message) ==
  [status |-> 500, success |-> FALSE, error |-> message,
   assessmentType |-> "", assessment |-> NoAssessment, analysis |-> "",
   riskMitigations |-> << >>, assessedRisks |-> << >>]

\* the response a handler builds from its locals once the call is over
ResponseFrom(l, outcome) ==
  IF l.usesChecklist
    THEN [status |-> 200, success |-> TRUE, error |-> "",
          assessmentType |-> "gap_analysis",
          assessment |->
            AssessmentResult(l.overallScore, l.adjustedRiskScores, l.gapAnalysis),
          analysis |-> IF outcome = "throws" THEN "fallback" ELSE "llm",
          riskMitigations |->
            FlatMap(RisksToMitigate(l.applicableRisks, l.adjustedRiskScores,
                                    l.frameworks),
                    MitigationsOf(l.adjustedRiskScores)),
          assessedRisks |-> l.applicableRisks]
  ELSE IF outcome = "throws"
    THEN FailureResponse("Failed to perform assessment")
  ELSE [status |-> 200, success |-> TRUE, error |-> "",
        assessmentType |-> "standard",
        assessment |->
          IF UsesFallback(TextOf(outcome))
            THEN FallbackResult(l.applicableRisks, l.userInputs)
            ELSE ParsedResult(extractJsonFromResponse(TextOf(outcome)),
                              l.applicableRisks),
        analysis |-> "",
        riskMitigations |-> << >>,
        assessedRisks |-> l.applicableRisks]

\* variant: the locals live in one place shared by all invocations
SharedSlot(r) == 1

\* each invocation of POST has its own locals
Slot(r) == r

\* POST for request r, up to the await of the completion call
Receive(r) ==
  /\ pc = "serving"
  /\ requests[r].pc = "received"
  /\ IF MissingApiKey(apiKeyConfigured)
       THEN /\ requests' =
                 [requests EXCEPT
                    ![r].pc = "responded",
                    ![r].response = FailureResponse("OpenAI API key not configured")]
            /\ locals' = locals
       ELSE /\ requests' =
                 [requests EXCEPT
                    ![r].pc = "awaiting",
                    ![r].overlapped =
                       \E o \in RequestIds \ {r} : requests[o].pc = "awaiting"]
            /\ locals' =
                 [locals EXCEPT
                    ![Slot(r)] = LocalsOf(requests[r].body, checklistQuestions)]
  /\ UNCHANGED << pc, scorerVars, requestVars, clientVars, routeVars,
                  displayVars >>

\* the completion call of request r is over: the handler answers
Finish(r) ==
  /\ pc = "serving"
  /\ requests[r].pc = "awaiting"
  /\ \E outcome \in Outcomes :
       requests' =
         [requests EXCEPT
            ![r].pc = "responded",
            ![r].outcome = outcome,
            ![r].response = ResponseFrom(locals[Slot(r)], outcome)]
  /\ UNCHANGED << pc, scorerVars, requestVars, clientVars, routeVars, locals,
                  displayVars >>

ConcurrentInit ==
  /\ requests \in
       [RequestIds ->
          [body : RequestBodies, outcome : {"none"}, pc : {"received"},
           response : {FailureResponse("")}, overlapped : {FALSE}]]
  /\ locals = [s \in RequestIds |-> NoLocals]
  /\ apiKeyConfigured \in BOOLEAN
  /\ userInputs = NoUserInputs
  /\ hasRiskAssessment = FALSE
  /\ checklistPresent = FALSE
  /\ checklistQuestions = ImportedCatalog
  /\ baseRiskScores = << >>
  /\ checklistData = << >>
  /\ pc = "serving"
  /\ ScorerLocalsInit
  /\ RouteLocalsInit
  /\ ClientIdle
  /\ DisplayIdle

ConcurrentNext ==
  \E r \in RequestIds : Receive(r) \/ Finish(r)

ConcurrentSpec == ConcurrentInit /\ [][ConcurrentNext]_vars

\* the response to a request handled with no other request around
ResponseAlone(body, outcome) ==
  IF ~apiKeyConfigured
    THEN FailureResponse("OpenAI API key not configured")
    ELSE ResponseFrom(LocalsOf(body, checklistQuestions), outcome)

\* C17: requests handled at the same time, in any interleaving, each get
\* the response they get when handled alone, and while a request waits for
\* its completion call the locals of its invocation are the ones its own
\* body gave: no request reads or writes what another request created.
C17_ConcurrentRequestsIndependent ==
  pc = "serving" =>
    \A r \in RequestIds :
      /\ requests[r].pc = "awaiting" =>
           locals[r] = LocalsOf(requests[r].body, checklistQuestions)
      /\ requests[r].pc = "responded" =>
           requests[r].response =
             ResponseAlone(requests[r].body, requests[r].outcome)

\* two requests with different bodies, one received while the other was
\* awaiting its completion call, both answered successfully, one by each
\* assessment
C17_Witness ==
  /\ pc = "serving"
  /\ \E r, o \in RequestIds :
       /\ r # o
       /\ requests[r].overlapped
       /\ requests[r].pc = "responded" /\ requests[o].pc = "responded"
       /\ requests[r].body.userInputs # requests[o].body.userInputs
       /\ requests[r].response.assessmentType = "gap_analysis"
       /\ requests[o].response.assessmentType = "standard"

----------------------------------------------------------------------------
(* app/page.tsx, AssessmentForm.tsx and ChecklistAssessment.tsx, with the
   requests they send to /api/assess *)

\* requests of other API clients in flight at a time
MaxDirect == 1

\* what is left alone by the page
serverVars == << pc, scorerVars, requestVars, routeVars, concurrentVars,
                displayVars >>

\* the values the inputs of the form can give a field: a text field is
\* emptied or filled, the select of useCase has its empty option and one
\* other, the option cards offer no empty value
FormValues ==
  [productName |-> {"", "Assistant"},
   productManagerName |-> {"", "Ada"},
   productManagerEmail |-> {"", "ada@example.com"},
   aiModel |-> {"thirdParty"},
   useCase |-> {"", "customerService"},
   dataSensitivity |-> {"restricted"},
   accuracyReq |-> {"critical"},
   hasRiskAssessment |-> {"yes", "no"}]

\* a form with every input filled and the given choice
FilledForm(choice) ==
  [productName |-> "Assistant", productManagerName |-> "Ada",
   productManagerEmail |-> "ada@example.com", aiModel |-> "thirdParty",
   useCase |-> "customerService", dataSensitivity |-> "restricted",
   industry |-> "", accuracyReq |-> "critical", hasRiskAssessment |-> choice]

\* the answers of the radio buttons of a question
ChecklistAnswers == {"yes", "no", "na"}

\* the catalog the checklist page imports
ClientCatalog == SubSeq(MasterCatalog, 2, 3)

\* a JS string is truthy unless empty
Truthy(text) == text # ""

\* variant: the product manager's email is not required
isFormValidWithoutEmail(form) ==
  /\ Truthy(form.productName) /\ Truthy(form.productManagerName)
  /\ Truthy(form.aiModel) /\ Truthy(form.useCase)
  /\ Truthy(form.dataSensitivity) /\ Truthy(form.accuracyReq)
  /\ Truthy(form.hasRiskAssessment)

\* every field but industry is truthy
isFormValid(form) ==
  /\ Truthy(form.productName) /\ Truthy(form.productManagerName)
  /\ Truthy(form.productManagerEmail)
  /\ Truthy(form.aiModel) /\ Truthy(form.useCase)
  /\ Truthy(form.dataSensitivity) /\ Truthy(form.accuracyReq)
  /\ Truthy(form.hasRiskAssessment)

\* variant: one answered question is enough
isFormCompleteSome(answers, catalog) ==
  \E i \in 1..Len(catalog) : catalog[i].id \in DOMAIN answers

\* checklistQuestions.every(q => responses[q.id] !== undefined)
isFormComplete(answers, catalog) ==
  \A i \in 1..Len(catalog) : catalog[i].id \in DOMAIN answers

\* setResponses(prev => ({ ...prev, [questionId]: answer }))
WithResponse(answers, questionId, answer) ==
  [id \in DOMAIN answers \cup {questionId} |->
     IF id = questionId THEN answer ELSE answers[id]]

\* the responses pushed under one category, in catalog order
RECURSIVE ResponsesOf(_, _, _)
ResponsesOf(catalog, answers, category) ==
  IF catalog = << >> THEN << >>
  ELSE LET question == Head(catalog)
           rest == ResponsesOf(Tail(catalog), answers, category)
       IN  IF question.category = category
             THEN << [questionId |-> question.id,
                      answer |-> IF question.id \in DOMAIN answers
                                   THEN answers[question.id]
                                   ELSE "undefined"] >> \o rest
             ELSE rest

\* const checklistData = { hallucination: [], promptInjection: [],
\* dataLeakage: [] } filled by checklistQuestions.forEach
OrganizeByCategory(answers, catalog) ==
  [category \in RiskCategory |-> ResponsesOf(catalog, answers, category)]

NoChecklistData == [category \in RiskCategory |-> << >>]

FormRequest(form) ==
  [origin |-> "form", branch |-> "pending",
   body |-> [userInputs |-> form, hasRiskAssessment |-> FALSE,
             checklistPresent |-> FALSE, checklistData |-> NoChecklistData]]

ChecklistRequest(form, answers, catalog) ==
  [origin |-> "checklist", branch |-> "pending",
   body |-> [userInputs |-> form, hasRiskAssessment |-> TRUE,
             checklistPresent |-> TRUE,
             checklistData |-> OrganizeByCategory(answers, catalog)]]

\* the requests of another client of the API: the two combinations of
\* hasRiskAssessment and checklistData the page never sends
DirectRequests ==
  { [origin |-> "direct", branch |-> "pending",
     body |-> [userInputs |-> FilledForm("no"), hasRiskAssessment |-> has,
               checklistPresent |-> ~has, checklistData |-> NoChecklistData]] :
      has \in BOOLEAN }

\* onChange of an input of the form
HandleInputChange ==
  /\ currentStep = "form"
  /\ \E field \in DOMAIN FormValues :
       \E value \in FormValues[field] :
         formData' = [formData EXCEPT ![field] = value]
  /\ alertShown' = ""
  /\ UNCHANGED << serverVars, currentStep, homeFormData, homeAssessmentResult,
                  isLoading, responses, inFlight >>

\* variant: the submit button of the form stays enabled while loading
AssessmentSubmitEnabledWhileLoading(loading, form) == isFormValid(form)

\* the submit button of the form: disabled={isLoading || !isFormValid()}
AssessmentSubmitEnabled(loading, form) == ~(loading \/ ~isFormValid(form))

\* variant: the submit button of the checklist stays enabled while loading
ChecklistSubmitEnabledWhileLoading(loading, answers, catalog) ==
  isFormComplete(answers, catalog)

\* the submit button of the checklist:
\* disabled={isLoading || !isFormComplete()}
ChecklistSubmitEnabled(loading, answers, catalog) ==
  ~(loading \/ ~isFormComplete(answers, catalog))

\* submitAssessment, up to its await of the fetch
submitAssessment ==
  /\ IF ~isFormValid(formData)
       THEN /\ alertShown' = "Please fill in all fields before submitting"
            /\ UNCHANGED << currentStep, homeFormData, isLoading, formData,
                            responses, inFlight >>
     ELSE IF formData.hasRiskAssessment = "no"
       THEN /\ isLoading' = TRUE
            /\ inFlight' = inFlight \cup { FormRequest(formData) }
            /\ alertShown' = ""
            /\ UNCHANGED << currentStep, homeFormData, formData, responses >>
     ELSE IF formData.hasRiskAssessment = "yes"
       THEN \* onComplete({ showChecklist: true, formData })
            /\ homeFormData' = << formData >>
            /\ currentStep' = "checklist"
            /\ formData' = EmptyForm
            /\ responses' = << >>
            /\ alertShown' = ""
            /\ UNCHANGED << isLoading, inFlight >>
     ELSE /\ alertShown' =
               "Please select whether you have conducted AI Risk Assessment"
          /\ UNCHANGED << currentStep, homeFormData, isLoading, formData,
                          responses, inFlight >>
  /\ UNCHANGED << serverVars, homeAssessmentResult >>

\* a click on the submit button of the form
SubmitAssessment ==
  /\ currentStep = "form"
  /\ AssessmentSubmitEnabled(isLoading, formData)
  /\ submitAssessment

\* submitAssessment called whatever the state of its button
CallSubmitAssessment ==
  /\ currentStep = "form"
  /\ submitAssessment

\* userInputs of a body whose formData was undefined: JSON.stringify
\* leaves the key out
UndefinedForm == [field \in DOMAIN EmptyForm |-> "undefined"]

\* the formData prop Home hands to the checklist
FormProp(held) == IF held = << >> THEN UndefinedForm ELSE held[1]

\* onChange of a radio button of the checklist
HandleResponseChange ==
  /\ currentStep = "checklist"
  /\ \E id \in CatalogIds(checklistQuestions) :
       \E answer \in ChecklistAnswers :
         responses' = WithResponse(responses, id, answer)
  /\ alertShown' = ""
  /\ UNCHANGED << serverVars, currentStep, homeFormData, homeAssessmentResult,
                  isLoading, formData, inFlight >>

\* a click on the submit button of the checklist, enabled unless
\* isLoading || !isFormComplete(): submitChecklist
SubmitChecklist ==
  /\ currentStep = "checklist"
  /\ ChecklistSubmitEnabled(isLoading, responses, checklistQuestions)
  /\ IF ~isFormComplete(responses, checklistQuestions)
       THEN /\ alertShown' = "Please answer all questions before submitting"
            /\ UNCHANGED << isLoading, inFlight >>
       ELSE /\ isLoading' = TRUE
            /\ inFlight' = inFlight \cup
                 { ChecklistRequest(FormProp(homeFormData), responses,
                                    checklistQuestions) }
            /\ alertShown' = ""
  /\ UNCHANGED << serverVars, currentStep, homeFormData, homeAssessmentResult,
                  formData, responses >>

\* handleReset()
handleReset ==
  /\ currentStep' = "form"
  /\ homeFormData' = << >>
  /\ homeAssessmentResult' = "null"

\* variant: going back clears what the page holds, as a reset does
handleBackToFormClearing == handleReset

\* handleBackToForm()
handleBackToForm ==
  /\ currentStep' = "form"
  /\ UNCHANGED << homeFormData, homeAssessmentResult >>

\* variant: Back to Form is disabled while a request is awaited
BackEnabledUnlessLoading(loading) == ~loading

\* the Back to Form button carries no disabled attribute
BackEnabled(loading) == TRUE

\* a click on Back to Form in the checklist, which unmounts the checklist
HandleBackToForm ==
  /\ currentStep = "checklist"
  /\ BackEnabled(isLoading)
  /\ handleBackToForm
  /\ formData' = EmptyForm
  /\ responses' = << >>
  /\ alertShown' = ""
  /\ UNCHANGED << serverVars, isLoading, inFlight >>

\* a click on the reset button of the results, which unmounts the results
HandleReset ==
  /\ currentStep = "results"
  /\ handleReset
  /\ formData' = EmptyForm
  /\ responses' = << >>
  /\ alertShown' = ""
  /\ UNCHANGED << serverVars, isLoading, inFlight >>

\* another client posts to /api/assess
DirectRequest ==
  /\ Cardinality({ q \in inFlight : q.origin = "direct" }) < MaxDirect
  /\ \E q \in DirectRequests : inFlight' = inFlight \cup {q}
  /\ UNCHANGED << serverVars, currentStep, homeFormData, homeAssessmentResult,
                  isLoading, formData, responses, alertShown >>

\* the kind of assessment POST runs on a body; determineApplicableRisks
\* throws on a body without userInputs, before any branch is taken
BranchOf(body) ==
  IF body.userInputs = UndefinedForm THEN "none"
  ELSE IF UsesChecklist(body.hasRiskAssessment, body.checklistPresent)
    THEN "checklist" ELSE "standard"

\* handleFormComplete(result) for the assessment of a response: the
\* assessment of the standard branch is the object parsed from the
\* completion, and may carry a truthy showChecklist and no formData
handleFormComplete(showChecklist, kind) ==
  IF showChecklist
    THEN /\ homeFormData' = << >>
         /\ currentStep' = "checklist"
         /\ formData' = EmptyForm
         /\ responses' = IF currentStep = "checklist" THEN responses ELSE << >>
         /\ homeAssessmentResult' = homeAssessmentResult
    ELSE /\ homeAssessmentResult' = kind
         /\ currentStep' = "results"
         /\ formData' = EmptyForm
         /\ responses' = << >>
         /\ homeFormData' = homeFormData

\* handleChecklistComplete(result)
handleChecklistComplete(kind) ==
  /\ homeAssessmentResult' = kind
  /\ currentStep' = "results"
  /\ formData' = EmptyForm
  /\ responses' = << >>
  /\ homeFormData' = homeFormData

\* the outcomes of a fetch: success, success with an assessment that
\* carries showChecklist, a response without success, a fetch that throws
Outcome == {"success", "successShowChecklist", "failed", "error"}

\* variant: isLoading is reset only after a success
IsLoadingAfterOnSuccess(outcome) ==
  outcome \notin {"success", "successShowChecklist"}

\* finally { setIsLoading(false) }
IsLoadingAfter(outcome) == FALSE

\* variant: onComplete is called with whatever POST answered
CallsOnCompleteOnAnyAnswer(outcome) == outcome # "error"

\* if (result.success) onComplete(result.assessment)
CallsOnComplete(outcome) == outcome \in {"success", "successShowChecklist"}

\* what the page does with the outcome of its fetch: onComplete on
\* success, an alert otherwise, and setIsLoading(false) in any case
Settle(origin, outcome, kind) ==
  /\ isLoading' = IsLoadingAfter(outcome)
  /\ IF CallsOnComplete(outcome)
       THEN /\ IF origin = "form"
                 THEN handleFormComplete(outcome = "successShowChecklist", kind)
                 ELSE handleChecklistComplete(kind)
            /\ alertShown' = ""
       ELSE /\ alertShown' =
                 IF outcome = "failed" THEN "Assessment failed"
                 ELSE "Error performing assessment"
            /\ UNCHANGED << homeAssessmentResult, currentStep, formData,
                            responses, homeFormData >>

\* POST runs on a request in flight and takes its branch
Serve ==
  /\ \E q \in inFlight :
       /\ q.branch = "pending"
       /\ inFlight' = (inFlight \ {q}) \cup { [q EXCEPT !.branch = BranchOf(q.body)] }
  /\ UNCHANGED << serverVars, currentStep, homeFormData, homeAssessmentResult,
                  isLoading, formData, responses, alertShown >>

\* the fetch of a request is over: POST answered with success or with an
\* error, or the fetch itself failed; only the standard assessment
\* returns what the completion said
RespondWith(q, outcome) ==
  /\ outcome = "failed" => q.branch # "pending"
  /\ outcome = "success" => q.branch \in {"checklist", "standard"}
  /\ outcome = "successShowChecklist" =>
       q.branch = "standard" /\ q.origin = "form"
  /\ inFlight' = inFlight \ {q}
  /\ IF q.origin = "direct"
       THEN UNCHANGED << currentStep, homeAssessmentResult, isLoading,
                         formData, responses, alertShown, homeFormData >>
       ELSE Settle(q.origin, outcome,
                   IF q.branch = "checklist"
                     THEN "gap_analysis" ELSE "standard")
  /\ UNCHANGED serverVars

RespondTo(q) == \E outcome \in Outcome : RespondWith(q, outcome)

Respond == \E q \in inFlight : RespondTo(q)

\* the fetch of a request of the page is over
PageSettles ==
  \E q \in inFlight : q.origin # "direct" /\ RespondTo(q)

Init ==
  /\ ClientIdle
  /\ checklistQuestions = ClientCatalog
  /\ baseRiskScores = << >>
  /\ checklistData = << >>
  /\ pc = "page"
  /\ RequestIdle
  /\ ScorerLocalsInit
  /\ RouteLocalsInit
  /\ ConcurrentIdle
  /\ DisplayIdle

Next ==
  \/ HandleInputChange
  \/ SubmitAssessment
  \/ HandleResponseChange
  \/ SubmitChecklist
  \/ HandleBackToForm
  \/ HandleReset
  \/ DirectRequest
  \/ Serve
  \/ Respond

Spec == Init /\ [][Next]_vars

\* the page with fetches that settle: the promise of a fetch resolves or
\* rejects
FairSpec == Spec /\ WF_vars(PageSettles)

----------------------------------------------------------------------------
(* Properties of the page and its requests *)

\* the requests of the page that are in flight
FromForm == { q \in inFlight : q.origin = "form" }
FromChecklist == { q \in inFlight : q.origin = "checklist" }

\* what holds of the requests in flight
RequestsWellFormed ==
  /\ \A q \in FromForm :
       /\ q.body.userInputs.hasRiskAssessment = "no"
       /\ ~q.body.hasRiskAssessment
       /\ ~q.body.checklistPresent
  /\ \A q \in FromChecklist :
       /\ q.body.hasRiskAssessment
       /\ q.body.checklistPresent
  /\ \A q \in inFlight :
       q.branch \notin {"pending", "none"} =>
         /\ q.branch \in {"checklist", "standard"}
         /\ q.branch = "checklist" <=>
              (q.body.hasRiskAssessment /\ q.body.checklistPresent)

\* C12: the form sends a request, with hasRiskAssessment false and no
\* checklist data, only for a form whose choice is 'no', and then stays
\* on its step; with the choice 'yes' a submission only opens the
\* checklist and sends nothing; the checklist sends hasRiskAssessment true
\* with its data; POST runs the checklist assessment if and only if
\* hasRiskAssessment is truthy and checklistData is present, and the
\* standard assessment otherwise.
C12_OneOfTwoBranches ==
  /\ []RequestsWellFormed
  /\ [][ /\ (SubmitAssessment /\ formData.hasRiskAssessment = "yes") =>
              /\ inFlight' = inFlight
              /\ currentStep' = "checklist"
              /\ homeFormData' = << formData >>
         /\ (SubmitAssessment /\ formData.hasRiskAssessment = "no") =>
              /\ inFlight' = inFlight \cup { FormRequest(formData) }
              /\ currentStep' = currentStep ]_vars

\* POST ran the standard assessment on the request of a form with the
\* choice 'no' and on a request that has the flag but no checklist data
C12_Witness ==
  /\ \E q \in FromForm : q.branch = "standard"
  /\ \E q \in inFlight :
       /\ q.body.hasRiskAssessment /\ ~q.body.checklistPresent
       /\ q.branch = "standard"

\* the checklist is open after the choice 'yes', nothing in flight
C12_WitnessChecklistOpened ==
  /\ currentStep = "checklist"
  /\ inFlight = {}
  /\ ~isLoading

\* C13: a request of the checklist is sent only with an answer to every
\* catalog question: its checklistData has, for each catalog question,
\* exactly one response with that question's id, under the question's own
\* category and with one of the answers yes, no and na, and it has no
\* other response.
C13_OneResponsePerQuestion ==
  \A q \in FromChecklist :
    LET data == q.body.checklistData
        entries == { << category, i >> \in RiskCategory \X (1..Len(checklistQuestions)) :
                       i <= Len(data[category]) }
    IN  /\ DOMAIN data = RiskCategory
        /\ \A n \in 1..Len(checklistQuestions) :
             LET question == checklistQuestions[n]
                 found == { e \in entries :
                              data[e[1]][e[2]].questionId = question.id }
             IN  /\ Cardinality(found) = 1
                 /\ \A e \in found :
                      /\ e[1] = question.category
                      /\ data[e[1]][e[2]].answer \in ChecklistAnswers
        /\ Cardinality(entries) = Len(checklistQuestions)

\* a checklist request in flight whose two questions, of different
\* categories, got different answers
C13_Witness ==
  \E q \in FromChecklist :
    /\ Len(q.body.checklistData["hallucination"]) = 1
    /\ Len(q.body.checklistData["dataLeakage"]) = 1
    /\ q.body.checklistData["hallucination"][1].answer = "na"
    /\ q.body.checklistData["dataLeakage"][1].answer = "no"
    /\ q.branch = "checklist"

----------------------------------------------------------------------------
(* components/ResultsDisplay.tsx: the label and the colour of the overall
   score *)

\* risk scores and overall scores shown: the values around the thresholds
DisplayedRiskValues == {0, 39, 40, 69, 70, 100}
DisplayedOverallScores ==
  { Num(n) : n \in {0, 39, 40, 59, 60, 79, 80, 100} } \cup {NaN}

\* x >= n for a JS number x: false for NaN
AtLeast(x, n) == ~IsNaN(x) /\ x.num >= n * x.den

\* Math.max(...Object.values(riskScores)) >= n: Math.max of no value is
\* -Infinity
MaxRiskScoreAtLeast(riskScores, n) ==
  \E risk \in DOMAIN riskScores : riskScores[risk] >= n

Red == "from-red-500/80 to-pink-500/80"
Green == "from-green-500/80 to-emerald-500/80"
Yellow == "from-yellow-500/80 to-orange-500/80"
Orange == "from-orange-500/80 to-red-500/80"

getRiskLevel(score) ==
  IF score >= 70 THEN [level |-> "High Risk", color |-> Red]
  ELSE IF score >= 40 THEN [level |-> "Medium Risk", color |-> Yellow]
  ELSE [level |-> "Low Risk", color |-> Green]

\* variant: the colour goes by the overall score alone
getScoreColorByScore(score, riskScores) ==
  IF AtLeast(score, 80) THEN Green
  ELSE IF AtLeast(score, 60) THEN Yellow
  ELSE IF AtLeast(score, 40) THEN Orange
  ELSE Red

getScoreColor(score, riskScores) ==
  IF MaxRiskScoreAtLeast(riskScores, 70) THEN Red
  ELSE IF AtLeast(score, 80) THEN Green
  ELSE IF AtLeast(score, 60) THEN Yellow
  ELSE IF AtLeast(score, 40) THEN Orange
  ELSE Red

\* variant: medium risks do not cap the label
getScoreLabelHighOnly(score, riskScores) ==
  IF MaxRiskScoreAtLeast(riskScores, 70) THEN "Needs Attention"
  ELSE IF AtLeast(score, 80) THEN "Excellent"
  ELSE IF AtLeast(score, 60) THEN "Good"
  ELSE IF AtLeast(score, 40) THEN "Moderate"
  ELSE "Needs Improvement"

getScoreLabel(score, riskScores) ==
  IF MaxRiskScoreAtLeast(riskScores, 70) THEN "Needs Attention"
  ELSE IF MaxRiskScoreAtLeast(riskScores, 40) THEN "Moderate Compliance"
  ELSE IF AtLeast(score, 80) THEN "Excellent"
  ELSE IF AtLeast(score, 60) THEN "Good"
  ELSE IF AtLeast(score, 40) THEN "Moderate"
  ELSE "Needs Improvement"

\* the render of the overall score
RenderScore ==
  /\ pc = "render"
  /\ scoreLabel' = getScoreLabel(assessmentResult.overallScore,
                                 assessmentResult.riskScores)
  /\ scoreColor' = getScoreColor(assessmentResult.overallScore,
                                 assessmentResult.riskScores)
  /\ pc' = "rendered"
  /\ UNCHANGED << scorerVars, requestVars, clientVars, concurrentVars,
                  routeVars >>

\* ResultsDisplay is handed a result
DisplayInit ==
  /\ assessmentResult \in
       [overallScore : DisplayedOverallScores,
        riskScores : PartialMaps(RiskCategory, DisplayedRiskValues)]
  /\ pc = "render"
  /\ checklistQuestions = << >>
  /\ baseRiskScores = << >>
  /\ checklistData = << >>
  /\ adjustedRiskScores = << >>
  /\ gapAnalysis = NoGapAnalysis
  /\ gapRecommendations = << >>
  /\ overallScore = NaN
  /\ implementedControls = << >>
  /\ missingControls = << >>
  /\ RequestIdle
  /\ RouteLocalsInit
  /\ ClientIdle
  /\ ConcurrentIdle
  /\ DisplayIdle

DisplayNext == RenderScore

DisplaySpec == DisplayInit /\ [][DisplayNext]_vars

Rendered == pc = "rendered"

ShownRisks == DOMAIN assessmentResult.riskScores

\* C21: the label shown is 'Needs Attention' whenever a risk score is 70 or
\* more and 'Moderate Compliance' whenever the highest risk score is in
\* 40..69, whatever the overall score; 'Excellent' and 'Good' are shown
\* only when every risk score is below 40; the colour is the red of poor
\* compliance whenever a risk score is 70 or more.
C21_LabelCappedByRisks ==
  Rendered =>
    LET scores == assessmentResult.riskScores
        anyHigh == \E r \in ShownRisks : scores[r] >= 70
        highestMedium ==
          /\ \E r \in ShownRisks : scores[r] >= 40
          /\ \A r \in ShownRisks : scores[r] <= 69
    IN  /\ anyHigh => scoreLabel = "Needs Attention" /\ scoreColor = Red
        /\ highestMedium => scoreLabel = "Moderate Compliance"
        /\ scoreLabel \in {"Excellent", "Good"} =>
             \A r \in ShownRisks : scores[r] < 40

\* an overall score of 100 shown red as 'Needs Attention' for one risk of 70
\* among low ones
C21_Witness ==
  /\ Rendered
  /\ assessmentResult.overallScore = Num(100)
  /\ \E r \in ShownRisks : assessmentResult.riskScores[r] = 70
  /\ \E r \in ShownRisks : assessmentResult.riskScores[r] = 0
  /\ scoreLabel = "Needs Attention"
  /\ scoreColor = Red

\* an overall score of 100 labelled 'Moderate Compliance' for a highest
\* risk of 40
C21_WitnessMedium ==
  /\ Rendered
  /\ assessmentResult.overallScore = Num(100)
  /\ \E r \in ShownRisks : assessmentResult.riskScores[r] = 40
  /\ scoreLabel = "Moderate Compliance"
  /\ scoreColor = Green

----------------------------------------------------------------------------
(* The form alone, with submitAssessment called whatever the state of its
   button *)

FormNext ==
  \/ HandleInputChange
  \/ CallSubmitAssessment
  \/ Serve
  \/ Respond

FormSpec == Init /\ [][FormNext]_vars

RequiredFields ==
  {"productName", "productManagerName", "productManagerEmail", "aiModel",
   "useCase", "dataSensitivity", "accuracyReq", "hasRiskAssessment"}

AllFieldsFilled(form) == \A field \in RequiredFields : form[field] # ""

\* C22: unless productName, productManagerName, productManagerEmail,
\* aiModel, useCase, dataSensitivity, accuracyReq and hasRiskAssessment are
\* all non-empty, a call of submitAssessment sends no request and does not
\* change the step: it only alerts, and leaves isLoading, the form data
\* and what Home holds unchanged.
C22_InvalidFormOnlyAlerts ==
  [][ (CallSubmitAssessment /\ ~AllFieldsFilled(formData)) =>
        /\ alertShown' = "Please fill in all fields before submitting"
        /\ UNCHANGED << inFlight, currentStep, isLoading, formData,
                        homeFormData, homeAssessmentResult >> ]_vars

\* submitAssessment has alerted for a form that lacks only the email
C22_Witness ==
  /\ currentStep = "form"
  /\ formData.productManagerEmail = ""
  /\ \A field \in RequiredFields \ {"productManagerEmail"} :
       formData[field] # ""
  /\ alertShown = "Please fill in all fields before submitting"
  /\ inFlight = {}
  /\ ~isLoading

\* ---------------------------------------------------------------------
\* The steps of the Home page

Steps == {"form", "checklist", "results"}

\* C23: in every reachable state of Home, currentStep is one of 'form',
\* 'checklist' and 'results'; on 'results' assessmentResult is set; on
\* 'checklist' formData is set.
C23_StepsHaveTheirData ==
  /\ currentStep \in Steps
  /\ currentStep = "results" => homeAssessmentResult # "null"
  /\ currentStep = "checklist" => homeFormData # << >>

\* the part of C23 that every reachable state has
C23_StepsAndResults ==
  /\ currentStep \in Steps
  /\ currentStep = "results" => homeAssessmentResult # "null"

\* ---------------------------------------------------------------------
\* Going back and starting over

\* C24: handleReset sets currentStep to 'form' and clears formData and
\* assessmentResult; handleBackToForm sets currentStep to 'form' and
\* leaves formData and assessmentResult as they are; neither changes
\* isLoading.
C24_ResetClearsBackKeeps ==
  [][ /\ HandleReset =>
           /\ currentStep' = "form"
           /\ homeFormData' = << >>
           /\ homeAssessmentResult' = "null"
           /\ isLoading' = isLoading
      /\ HandleBackToForm =>
           /\ currentStep' = "form"
           /\ homeFormData' = homeFormData
           /\ homeAssessmentResult' = homeAssessmentResult
           /\ isLoading' = isLoading ]_vars

\* the page is back on the form, still holding the form data of the
\* checklist it left, while the request of that checklist is in flight
C24_Witness ==
  /\ currentStep = "form"
  /\ homeFormData # << >>
  /\ isLoading

\* the results are shown while the page holds form data: a reset from
\* here has something to clear
C24_WitnessReset ==
  /\ currentStep = "results"
  /\ homeFormData # << >>
  /\ homeAssessmentResult # "null"

\* ---------------------------------------------------------------------
\* The loading flag

\* the requests of the page that are in flight
FromPage == { q \in inFlight : q.origin # "direct" }

\* while isLoading is true a request of the page is in flight, both
\* submit buttons are disabled, and no submission is added
LoadingBlocksSubmit ==
  /\ isLoading <=> FromPage # {}
  /\ Cardinality(FromPage) <= 1
  /\ isLoading =>
       /\ ~AssessmentSubmitEnabled(isLoading, formData)
       /\ ~ChecklistSubmitEnabled(isLoading, responses, checklistQuestions)

\* C25: a submission that set isLoading to true sets it back to false
\* once its request has settled, whether with success, with a failure or
\* with a fetch that threw; the submit buttons are disabled for as long
\* as isLoading is true.
C25_LoadingEndsAndBlocks ==
  /\ isLoading ~> ~isLoading
  /\ []LoadingBlocksSubmit
  /\ [][isLoading => ~SubmitAssessment /\ ~SubmitChecklist]_vars

\* a request of the page is in flight and isLoading is true, on a form
\* that would otherwise be submittable
C25_Witness ==
  /\ isLoading
  /\ FromForm # {}
  /\ isFormValid(formData)

\* the request of a page has failed and isLoading is false again
C25_WitnessFailed ==
  /\ ~isLoading
  /\ alertShown \in {"Assessment failed", "Error performing assessment"}
  /\ FromPage = {}

\* ---------------------------------------------------------------------
\* Requests that fail

\* the outcomes the page answers with an alert
Failures == {"failed", "error"}

\* the fetch of a request of the page ends without success
PageRequestFails ==
  \E q \in inFlight :
    /\ q.origin # "direct"
    /\ \E outcome \in Failures : RespondWith(q, outcome)

\* C26: when the response of a request has success false, or the request
\* throws, the page only alerts: currentStep, formData and
\* assessmentResult stay as they are and onComplete is not called (no
\* step is entered and what the mounted component holds is kept).
C26_FailureOnlyAlerts ==
  [][ PageRequestFails =>
        /\ alertShown' \in {"Assessment failed", "Error performing assessment"}
        /\ UNCHANGED << currentStep, homeFormData, homeAssessmentResult,
                        formData, responses >> ]_vars

\* the request of a filled form has failed: the page is still on the
\* form, which keeps its values, and holds no result
C26_Witness ==
  /\ alertShown = "Assessment failed"
  /\ currentStep = "form"
  /\ isFormValid(formData)
  /\ homeAssessmentResult = "null"
  /\ FromPage = {}

\* the request of a checklist has thrown: the page is still on the
\* checklist with its answers
C26_WitnessChecklist ==
  /\ alertShown = "Error performing assessment"
  /\ currentStep = "checklist"
  /\ isFormComplete(responses, checklistQuestions)
  /\ FromPage = {}

\* ---------------------------------------------------------------------
\* Going back while the checklist's request is awaited

\* the request of a checklist succeeds while the page shows the form
LateChecklistSuccess ==
  /\ currentStep = "form"
  /\ \E q \in FromChecklist : RespondWith(q, "success")

\* C27: Back to Form of the checklist stays enabled while the request of
\* the checklist is in flight; if the user goes back and the request then
\* succeeds, the late response still sets assessmentResult and moves
\* currentStep from 'form' to 'results'.
C27_LateResponseShowsResults ==
  /\ []((currentStep = "checklist" /\ isLoading) => ENABLED HandleBackToForm)
  /\ [][ LateChecklistSuccess =>
           /\ currentStep' = "results"
           /\ homeAssessmentResult' = "gap_analysis" ]_vars

\* the user went back to the form while the request of the checklist,
\* which POST is answering with the gap analysis, is still in flight
C27_Witness ==
  /\ currentStep = "form"
  /\ isLoading
  /\ \E q \in FromChecklist : q.branch = "checklist"

====
